---- MODULE Spec2Model ----
(***************************************************************************)
(* The conversation/session store of src/src/store/chat-store.ts           *)
(* (useChatStore).  The store is a single zustand object; every handler    *)
(* runs to its next await without interruption, so each action below is    *)
(* one synchronous stretch of a handler: the part of an operation up to    *)
(* the request it issues, or the part that runs when a response arrives.   *)
(*                                                                         *)
(* The UUID test and the title rule are computed character by character:   *)
(* Spell gives the characters of every string of the model.  null,         *)
(* undefined and "" are all the empty string: the code only ever tests     *)
(* these values for truthiness.                                            *)
(*                                                                         *)
(* Two history variables are not state of the program: last records the    *)
(* handler stretch that ran last together with the store as it was before  *)
(* it ran, and every message carries the number of the sendMessage call    *)
(* that appended it (0 for a direct addMessage or a loaded transcript).    *)
(*                                                                         *)
(* A third one, sessionsUser, is the userId the sessions request was made  *)
(* for whose list sessions holds.                                          *)
(*                                                                         *)
(* Spec has the operations on conversations, sessions and the connection;  *)
(* FullSpec adds the settings, the file list and setLoading, which touch   *)
(* none of the fields the other operations read.                           *)
(*                                                                         *)
(* titleContent and derivedTitle are the argument and the result of        *)
(* createTitleFromContent in TitleSpec, which applies that function to     *)
(* the characters of a content; they are empty in the store's behaviours.  *)
(***************************************************************************)
EXTENDS Integers, Sequences, FiniteSets, TLC

VARIABLES conversations, sessions, currentConversationId, isLoading,
          isConnected, connectionError, userId,
          apiKey, apiHost, files,
          inflight, issued, ops, uuidCount, last, sessionsUser,
          titleContent, derivedTitle

vars == <<conversations, sessions, currentConversationId, isLoading,
          isConnected, connectionError, userId,
          apiKey, apiHost, files,
          inflight, issued, ops, uuidCount, last, sessionsUser,
          titleContent, derivedTitle>>

(***************************************************************************)
(* Bounds of the model.                                                    *)
(***************************************************************************)
\* user intents (calls of the store's operations) in one behaviour
MaxOps == 2

\* the longest content createTitleFromContent is applied to in TitleSpec
MaxContentLen == 32

(***************************************************************************)
(* Strings.                                                                *)
(***************************************************************************)
Null == ""

Truthy(s) == s # Null

\* the backend's session ids: a canonical UUID (in mixed case) and an id that
\* is not a UUID (the "temp-xyz" of the specification)
SessionA == "aBaBaBaB-aBaB-aBaB-aBaB-aBaBaBaBaBaB"
TempXyz == "temp-xyz"
ServerIds == {SessionA, TempXyz}

\* what uuidv4() returns, call after call: version nibble 4, variant nibble 8
GeneratedUuids ==
  <<"00000000-0000-4000-8000-000000000000",
    "11111111-1111-4111-8111-111111111111",
    "22222222-2222-4222-8222-222222222222",
    "33333333-3333-4333-8333-333333333333",
    "44444444-4444-4444-8444-444444444444",
    "55555555-5555-4555-8555-555555555555",
    "66666666-6666-4666-8666-666666666666",
    "77777777-7777-4777-8777-777777777777",
    "88888888-8888-4888-8888-888888888888",
    "99999999-9999-4999-8999-999999999999",
    "aaaaaaaa-aaaa-4aaa-8aaa-aaaaaaaaaaaa",
    "bbbbbbbb-bbbb-4bbb-8bbb-bbbbbbbbbbbb",
    "cccccccc-cccc-4ccc-8ccc-cccccccccccc",
    "dddddddd-dddd-4ddd-8ddd-dddddddddddd",
    "eeeeeeee-eeee-4eee-8eee-eeeeeeeeeeee",
    "ffffffff-ffff-4fff-8fff-ffffffffffff">>

\* uuidv4(): the identifier generated after n earlier ones
uuidv4(n) == GeneratedUuids[n + 1]

NewConversationTitle == "New conversation"
NewChatTitle == "New Chat"
ConversationTitle == "Conversation"

\* what the user types: longer than the title limit, with a comma and spaces
Question == "Show me the sales, by region and quarter"
\* the title the user interface shows for it
QuestionTitle == "Show me the sales, by region..."
Hi == "hi"
Ok == "ok"
ServerTitle == "Q1"

HexDigits == <<"0","1","2","3","4","5","6","7","8","9","a","b","c","d","e","f">>

\* the characters of the n-th generated identifier
GeneratedCharacters(n) ==
  [i \in 1..36 |->
     IF i \in {9, 14, 19, 24} THEN "-"
     ELSE IF i = 15 THEN "4" ELSE IF i = 20 THEN "8" ELSE HexDigits[n]]

\* the characters of the strings of the model
Spell(s) ==
  CASE s = "" -> << >>
    [] s = SessionA ->
         [i \in 1..36 |->
            IF i \in {9, 14, 19, 24} THEN "-" ELSE IF i % 2 = 1 THEN "a" ELSE "B"]
    [] s = TempXyz -> <<"t","e","m","p","-","x","y","z">>
    [] s = NewConversationTitle -> <<"N","e","w"," ","c","o","n","v","e","r","s","a","t","i","o","n">>
    [] s = NewChatTitle -> <<"N","e","w"," ","C","h","a","t">>
    [] s = ConversationTitle -> <<"C","o","n","v","e","r","s","a","t","i","o","n">>
    [] s = Question ->
         <<"S","h","o","w"," ","m","e"," ","t","h","e"," ","s","a","l","e","s",","," ","b","y"," ","r","e","g","i","o","n"," ","a","n","d"," ","q","u","a","r","t","e","r">>
    [] s = QuestionTitle ->
         <<"S","h","o","w"," ","m","e"," ","t","h","e"," ","s","a","l","e","s",","," ","b","y"," ","r","e","g","i","o","n",".",".",".">>
    [] s = Hi -> <<"h","i">>
    [] s = Ok -> <<"o","k">>
    [] s = ServerTitle -> <<"Q","1">>
    [] OTHER ->
         GeneratedCharacters(CHOOSE n \in 1..Len(GeneratedUuids) : s = GeneratedUuids[n])

Strings ==
  {"", SessionA, TempXyz, NewConversationTitle, NewChatTitle, ConversationTitle,
   Question, QuestionTitle, Hi, Ok, ServerTitle}
    \cup {GeneratedUuids[n] : n \in 1..Len(GeneratedUuids)}

\* the string with these characters
Unspell(chars) == CHOOSE s \in Strings : Spell(s) = chars

\* the groups of /^[0-9a-f]{8}-[0-9a-f]{4}-[0-9a-f]{4}-[0-9a-f]{4}-[0-9a-f]{12}$/i
UuidGroups == <<8, 4, 4, 4, 12>>

HexClass == {HexDigits[i] : i \in 1..Len(HexDigits)} \cup {"A","B","C","D","E","F"}

RECURSIVE MatchGroups(_, _, _)
\* does s, read from position p (1-based), consist of exactly the hex groups
\* gs, separated by single hyphens, up to the end of s
MatchGroups(s, p, gs) ==
  LET n == Head(gs)
  IN /\ p + n - 1 <= Len(s)
     /\ \A i \in p..(p + n - 1) : s[i] \in HexClass
     /\ IF Len(gs) = 1
          THEN p + n - 1 = Len(s)
          ELSE /\ p + n <= Len(s)
               /\ s[p + n] = "-"
               /\ MatchGroups(s, p + n + 1, Tail(gs))

UuidRegexTest(s) == MatchGroups(Spell(s), 1, UuidGroups)

(***************************************************************************)
(* createTitleFromContent.  Positions of the code are 0-based; a sequence  *)
(* position is the code's index plus one.                                  *)
(***************************************************************************)
TitleLimit == 30
MinBreakIndex == 10

Ellipsis == <<".", ".", ".">>

breakPoints == <<" ", ",", ".", "?", "!">>

Whitespace == {" "}

Max(S) == CHOOSE x \in S : \A y \in S : y <= x
Min(S) == CHOOSE x \in S : \A y \in S : x <= y

\* String.prototype.lastIndexOf(ch, from): the greatest 0-based index <= from
\* at which ch occurs, or -1
lastIndexOf(s, ch, from) ==
  LET hits == {i \in 0..Min({from, Len(s) - 1}) : s[i + 1] = ch}
  IN IF hits = {} THEN -1 ELSE Max(hits)

\* String.prototype.substring(0, end)
substring(s, end) == SubSeq(s, 1, Min({end, Len(s)}))

\* String.prototype.trim()
trim(s) ==
  LET keep == {i \in 1..Len(s) : s[i] \notin Whitespace}
  IN IF keep = {} THEN << >> ELSE SubSeq(s, Min(keep), Max(keep))

RECURSIVE bestBreakPoint(_, _)
\* the for loop over breakPoints, from its k-th element on: the first
\* character whose last index at or before 30 is past 10 decides
bestBreakPoint(content, k) ==
  IF k > Len(breakPoints) THEN TitleLimit
  ELSE LET index == lastIndexOf(content, breakPoints[k], TitleLimit)
       IN IF index > MinBreakIndex THEN index + 1
          ELSE bestBreakPoint(content, k + 1)

\* createTitleFromContent on the characters of content
createTitleFromCharacters(content) ==
  IF Len(content) <= TitleLimit THEN content
  ELSE trim(substring(content, bestBreakPoint(content, 1))) \o Ellipsis

createTitleFromContent(content) == Unspell(createTitleFromCharacters(Spell(content)))

(***************************************************************************)
(* Values of the store.  Dates are kept by origin: "now" for new Date(),   *)
(* or the string the backend sent.                                         *)
(***************************************************************************)
Now == "now"

Message(role, content, call) == [role |-> role, content |-> content, call |-> call]

Conversation(id, title, messages, createdAt, lastUpdatedAt) ==
  [id |-> id, title |-> title, messages |-> messages,
   createdAt |-> createdAt, lastUpdatedAt |-> lastUpdatedAt]

Session(session_id, title, created_at) ==
  [session_id |-> session_id, title |-> title, created_at |-> created_at]

Ids(convs) == {convs[i].id : i \in 1..Len(convs)}
SessionIdsOf(sess) == {sess[i].session_id : i \in 1..Len(sess)}

\* Array.prototype.find on sessions: the first entry with that session_id
FindSession(sess, id) ==
  sess[Min({i \in 1..Len(sess) : sess[i].session_id = id})]

(***************************************************************************)
(* Inputs: what the user types and what the backend answers.               *)
(***************************************************************************)
Contents == {Question}

\* the generation field of a chat response; the empty one is falsy
Generations == {Null, Ok}

Roles == {"user", "assistant"}

UserIds == {"u1", "u2"}

\* metadata.title / Session.title as sent by the backend; may be empty
ServerTitles == {Null, ServerTitle}

ServerDate == "2024-01-01"

\* the session lists a sessions response may carry
SessionLists ==
  { << >>,
    <<Session(SessionA, ServerTitle, ServerDate)>>,
    <<Session(TempXyz, ServerTitle, ServerDate), Session(SessionA, Null, ServerDate)>> }

\* the transcripts (ApiMessage[]) a conversation response may carry
Transcripts ==
  { << >>,
    <<[role |-> "user", content |-> Hi], [role |-> "assistant", content |-> Ok]>> }

(***************************************************************************)
(* The store as one record, and the set() calls of the handlers as         *)
(* functions from store to store.                                          *)
(***************************************************************************)
\* connectionError: null
NoError == ""
NotHealthyError == "API is not healthy"
ConnectFailedError ==
  "Failed to connect to API. Possible CORS issue. Try using the app in a non-development environment."

\* apiConfig.defaultApiKey and apiConfig.host
DefaultApiKey == "Da8j-Sj5B-9uSk-K4S6-So6j-kdk8-aai3-O2jP"
DefaultApiHost == "52.201.125.3:8000"

Store ==
  [conversations |-> conversations, sessions |-> sessions,
   currentConversationId |-> currentConversationId, isLoading |-> isLoading,
   isConnected |-> isConnected, connectionError |-> connectionError,
   userId |-> userId, uuidCount |-> uuidCount,
   apiKey |-> apiKey, apiHost |-> apiHost, files |-> files]

InitialStore ==
  [conversations |-> << >>, sessions |-> << >>,
   currentConversationId |-> Null, isLoading |-> FALSE,
   isConnected |-> FALSE, connectionError |-> NoError,
   userId |-> "", uuidCount |-> 0,
   apiKey |-> DefaultApiKey, apiHost |-> DefaultApiHost, files |-> << >>]

setLoading(st, loading) == [st EXCEPT !.isLoading = loading]

\* a slip in addMessageNew: the new conversation is not made current
addMessageNewNotCurrent(st, message) ==
  LET tempId == uuidv4(st.uuidCount)
      title == IF message.role = "user"
                 THEN createTitleFromContent(message.content)
                 ELSE NewConversationTitle
  IN [st EXCEPT
        !.conversations =
           <<Conversation(tempId, title, <<message>>, Now, Now)>> \o st.conversations,
        !.uuidCount = st.uuidCount + 1]

\* addMessage, first branch: no current conversation
addMessageNew(st, message) ==
  LET tempId == uuidv4(st.uuidCount)
      title == IF message.role = "user"
                 THEN createTitleFromContent(message.content)
                 ELSE NewConversationTitle
  IN [st EXCEPT
        !.conversations =
           <<Conversation(tempId, title, <<message>>, Now, Now)>> \o st.conversations,
        !.currentConversationId = tempId,
        !.uuidCount = st.uuidCount + 1]

\* a slip in addMessageExisting: the message is put before the others
addMessageExistingPrepending(st, message) ==
  LET cur == st.currentConversationId
      shouldUpdateTitle(conv) ==
        /\ message.role = "user"
        /\ \/ Len(conv.messages) = 0
           \/ conv.title = NewConversationTitle
           \/ conv.title = NewChatTitle
      update(conv) ==
        IF conv.id = cur
          THEN [conv EXCEPT
                  !.title = IF shouldUpdateTitle(conv)
                              THEN createTitleFromContent(message.content)
                              ELSE conv.title,
                  !.messages = <<message>> \o conv.messages,
                  !.lastUpdatedAt = Now]
          ELSE conv
  IN [st EXCEPT
        !.conversations = [i \in 1..Len(st.conversations) |-> update(st.conversations[i])]]

\* addMessage, second branch: a conversation with the current id exists
addMessageExisting(st, message) ==
  LET cur == st.currentConversationId
      shouldUpdateTitle(conv) ==
        /\ message.role = "user"
        /\ \/ Len(conv.messages) = 0
           \/ conv.title = NewConversationTitle
           \/ conv.title = NewChatTitle
      update(conv) ==
        IF conv.id = cur
          THEN [conv EXCEPT
                  !.title = IF shouldUpdateTitle(conv)
                              THEN createTitleFromContent(message.content)
                              ELSE conv.title,
                  !.messages = Append(conv.messages, message),
                  !.lastUpdatedAt = Now]
          ELSE conv
  IN [st EXCEPT
        !.conversations = [i \in 1..Len(st.conversations) |-> update(st.conversations[i])]]

\* a slip in addMessageMaterialize: the session of that id is not looked up
addMessageMaterializeIgnoringSession(st, message) ==
  LET cur == st.currentConversationId
      title == IF message.role = "user"
                 THEN createTitleFromContent(message.content)
                 ELSE NewConversationTitle
  IN [st EXCEPT
        !.conversations =
           <<Conversation(cur, title, <<message>>, Now, Now)>> \o st.conversations]

\* addMessage, third branch: the current id has no conversation
addMessageMaterialize(st, message) ==
  LET cur == st.currentConversationId
      hasSession == cur \in SessionIdsOf(st.sessions)
      sessionTitle == IF hasSession THEN FindSession(st.sessions, cur).title ELSE Null
      title == IF Truthy(sessionTitle) THEN sessionTitle
               ELSE IF message.role = "user"
                      THEN createTitleFromContent(message.content)
                      ELSE NewConversationTitle
      createdAt == IF hasSession THEN FindSession(st.sessions, cur).created_at ELSE Now
  IN [st EXCEPT
        !.conversations =
           <<Conversation(cur, title, <<message>>, createdAt, Now)>> \o st.conversations]

addMessage(st, content, role, call) ==
  LET message == Message(role, content, call)
  IN IF ~Truthy(st.currentConversationId) THEN addMessageNew(st, message)
     ELSE IF st.currentConversationId \in Ids(st.conversations)
            THEN addMessageExisting(st, message)
            ELSE addMessageMaterialize(st, message)

\* setUserId
setUserIdStore(st, id) ==
  [st EXCEPT !.userId = id, !.conversations = << >>, !.currentConversationId = Null]

\* connect, before the health probe
connectBegin(st) == [st EXCEPT !.isLoading = TRUE, !.connectionError = NoError]

\* a slip in connectHealthy: the conversations of the last connection stay
connectHealthyKeepingConversations(st) ==
  [st EXCEPT !.isConnected = TRUE, !.isLoading = FALSE]

\* connect, status "healthy"
connectHealthy(st) ==
  [st EXCEPT !.isConnected = TRUE, !.isLoading = FALSE,
             !.conversations = << >>, !.currentConversationId = Null]

\* a slip in connectNotHealthy: no message is set
connectNotHealthySilent(st) ==
  [st EXCEPT !.isConnected = FALSE, !.isLoading = FALSE]

\* connect, any other status
connectNotHealthy(st) ==
  [st EXCEPT !.isConnected = FALSE, !.isLoading = FALSE,
             !.connectionError = NotHealthyError]

\* connect, catch
connectCatch(st) ==
  [st EXCEPT !.isConnected = FALSE, !.isLoading = FALSE,
             !.connectionError = ConnectFailedError]

\* a slip in loadSessionsApply: a failed request empties the list held
loadSessionsApplyClearingOnFailure(st, resp) ==
  IF ~resp.ok THEN [st EXCEPT !.sessions = << >>, !.isLoading = FALSE]
  ELSE IF resp.hasField
         THEN [st EXCEPT !.sessions = resp.list, !.isLoading = FALSE]
         ELSE st

\* a slip in loadSessionsApply: the list received is merged into the list held
loadSessionsApplyMerging(st, resp) ==
  IF ~resp.ok THEN setLoading(st, FALSE)
  ELSE IF resp.hasField
         THEN LET absent(x) == x.session_id \notin SessionIdsOf(resp.list)
              IN [st EXCEPT !.sessions = resp.list \o SelectSeq(st.sessions, absent),
                            !.isLoading = FALSE]
         ELSE st

\* loadSessions, on a response: resp.hasField says whether data.sessions is there
loadSessionsApply(st, resp) ==
  IF ~resp.ok THEN setLoading(st, FALSE)
  ELSE IF resp.hasField
         THEN [st EXCEPT !.sessions = resp.list, !.isLoading = FALSE]
         ELSE st

\* a slip in loadConversationApply: an entry with the same id is not removed
loadConversationApplyWithoutReplacing(st, sessionId, resp) ==
  IF ~resp.ok THEN setLoading(st, FALSE)
  ELSE IF resp.hasField
         THEN LET messages ==
                    [i \in 1..Len(resp.messages) |->
                       Message(resp.messages[i].role, resp.messages[i].content, 0)]
                  title == IF Truthy(resp.title) THEN resp.title ELSE ConversationTitle
                  conversation ==
                    Conversation(sessionId, title, messages, ServerDate, ServerDate)
              IN [st EXCEPT
                    !.conversations = Append(st.conversations, conversation),
                    !.currentConversationId = sessionId,
                    !.isLoading = FALSE]
         ELSE st

\* loadConversation, on a response
loadConversationApply(st, sessionId, resp) ==
  IF ~resp.ok THEN setLoading(st, FALSE)
  ELSE IF resp.hasField
         THEN LET messages ==
                    [i \in 1..Len(resp.messages) |->
                       Message(resp.messages[i].role, resp.messages[i].content, 0)]
                  title == IF Truthy(resp.title) THEN resp.title ELSE ConversationTitle
                  conversation ==
                    Conversation(sessionId, title, messages, ServerDate, ServerDate)
                  other(c) == c.id # sessionId
              IN [st EXCEPT
                    !.conversations = Append(SelectSeq(st.conversations, other), conversation),
                    !.currentConversationId = sessionId,
                    !.isLoading = FALSE]
         ELSE st

\* a slip in includeSessionId: the UUID test is left out
includeSessionIdAnyFormat(st) ==
  /\ Truthy(st.currentConversationId)
  /\ st.currentConversationId \in SessionIdsOf(st.sessions)

\* sendMessage: is session_id put into the payload
includeSessionId(st) ==
  /\ Truthy(st.currentConversationId)
  /\ st.currentConversationId \in SessionIdsOf(st.sessions)
  /\ UuidRegexTest(st.currentConversationId)

\* sendMessage: the payload of the chat request; keys are the properties set
chatPayload(st, content) ==
  IF includeSessionId(st)
    THEN [question |-> content, user_id |-> st.userId,
          session_id |-> st.currentConversationId,
          keys |-> {"question", "user_id", "session_id"}]
    ELSE [question |-> content, user_id |-> st.userId,
          session_id |-> Null, keys |-> {"question", "user_id"}]

\* sendMessage: is the received session id adopted (line 328); captured is the
\* currentConversationId read when sendMessage was called
adoptsSessionId(captured, receivedSessionId) ==
  /\ Truthy(receivedSessionId)
  /\ (~Truthy(captured) \/ captured # receivedSessionId)

\* a slip in adoptSessionId: the pointer moves and the conversation keeps its id
adoptSessionIdPointerOnly(st, captured, receivedSessionId) ==
  [st EXCEPT !.currentConversationId = receivedSessionId]

\* sendMessage: the set() that adopts the received session id
adoptSessionId(st, captured, receivedSessionId) ==
  IF Truthy(captured)
    THEN LET rename(c) == IF c.id = captured THEN [c EXCEPT !.id = receivedSessionId] ELSE c
         IN [st EXCEPT
               !.conversations = [i \in 1..Len(st.conversations) |-> rename(st.conversations[i])],
               !.currentConversationId = receivedSessionId]
    ELSE [st EXCEPT !.currentConversationId = receivedSessionId]

\* a slip in deleteSessionApply: the first conversation left becomes current
deleteSessionApplyWithFallback(st, sessionId) ==
  LET keepConv(c) == c.id # sessionId
      keepSession(x) == x.session_id # sessionId
      left == SelectSeq(st.conversations, keepConv)
  IN [st EXCEPT
        !.conversations = left,
        !.sessions = SelectSeq(st.sessions, keepSession),
        !.currentConversationId =
           IF st.currentConversationId = sessionId
             THEN (IF left = << >> THEN Null ELSE left[1].id)
             ELSE st.currentConversationId,
        !.isLoading = FALSE]

\* deleteSession, after the remote delete succeeded
deleteSessionApply(st, sessionId) ==
  LET keepConv(c) == c.id # sessionId
      keepSession(x) == x.session_id # sessionId
  IN [st EXCEPT
        !.conversations = SelectSeq(st.conversations, keepConv),
        !.sessions = SelectSeq(st.sessions, keepSession),
        !.currentConversationId =
           IF st.currentConversationId = sessionId THEN Null ELSE st.currentConversationId,
        !.isLoading = FALSE]

(***************************************************************************)
(* Requests awaiting their response, and the responses of the backend.     *)
(***************************************************************************)
NoPayload == [question |-> Null, user_id |-> "", session_id |-> Null, keys |-> {}]

\* kind: health, sessions, conversation, chat or delete; n: the number of the
\* request; captured: currentConversationId as read by sendMessage;
\* sessionId: the argument of loadConversation / deleteSession; user: the
\* userId in the URL or payload; caller: the operation awaiting loadSessions
Request(kind, n, captured, sessionId, user, payload, caller) ==
  [kind |-> kind, n |-> n, captured |-> captured, sessionId |-> sessionId,
   user |-> user, payload |-> payload, caller |-> caller]

NoRequest == Request("none", 0, Null, Null, "", NoPayload, "none")

\* a request that throws has ok = FALSE; the other fields are those of
\* response.data that the handler reads
NoResponse ==
  [ok |-> TRUE, status |-> "", generation |-> Null, session_id |-> Null,
   hasField |-> FALSE, list |-> << >>, messages |-> << >>, title |-> Null]

Failure == [NoResponse EXCEPT !.ok = FALSE]

HealthResponses ==
  {Failure} \cup {[NoResponse EXCEPT !.status = x] : x \in {"healthy", "degraded"}}

SessionsResponses ==
  {Failure, NoResponse}
    \cup {[NoResponse EXCEPT !.hasField = TRUE, !.list = l] : l \in SessionLists}

ConversationResponses ==
  {Failure, NoResponse}
    \cup {[NoResponse EXCEPT !.hasField = TRUE, !.messages = m, !.title = t] :
            m \in Transcripts, t \in ServerTitles}

ChatResponses ==
  {Failure}
    \cup {[NoResponse EXCEPT !.generation = g, !.session_id = x] :
            g \in Generations, x \in ServerIds \cup {Null}}

DeleteResponses == {Failure, NoResponse}

\* the ids the user can name: those of the conversations and sessions on screen
TargetIds == Ids(conversations) \cup SessionIdsOf(sessions)

(***************************************************************************)
(* State machine.                                                          *)
(***************************************************************************)
SetStore(st) ==
  /\ conversations' = st.conversations
  /\ sessions' = st.sessions
  /\ currentConversationId' = st.currentConversationId
  /\ isLoading' = st.isLoading
  /\ isConnected' = st.isConnected
  /\ connectionError' = st.connectionError
  /\ userId' = st.userId
  /\ uuidCount' = st.uuidCount
  /\ apiKey' = st.apiKey
  /\ apiHost' = st.apiHost
  /\ files' = st.files

\* history: the stretch that ran, the request it resolved, the request it
\* issued, its arguments, the response it handled, and the store and the
\* requests in flight before it
Ran(op, req, sent, arg, role, resp) ==
  /\ last' = [op |-> op, req |-> req, sent |-> sent, arg |-> arg, role |-> role,
              resp |-> resp, pre |-> Store, inflight |-> inflight]
  /\ sessionsUser' = IF op = "sessionsResponse" /\ resp.ok /\ resp.hasField
                       THEN req.user ELSE sessionsUser
  /\ UNCHANGED <<titleContent, derivedTitle>>

Init ==
  /\ conversations = << >>
  /\ sessions = << >>
  /\ currentConversationId = Null
  /\ isLoading = FALSE
  /\ isConnected = FALSE
  /\ connectionError = NoError
  /\ userId = ""
  /\ uuidCount = 0
  /\ apiKey = DefaultApiKey
  /\ apiHost = DefaultApiHost
  /\ files = << >>
  /\ sessionsUser = ""
  /\ inflight = {}
  /\ issued = 0
  /\ ops = 0
  /\ last = [op |-> "init", req |-> NoRequest, sent |-> NoRequest, arg |-> Null,
             role |-> "", resp |-> NoResponse, pre |-> InitialStore, inflight |-> {}]
  /\ titleContent = << >>
  /\ derivedTitle = << >>

\* a user intent that issues no request
Intent ==
  /\ ops < MaxOps
  /\ ops' = ops + 1
  /\ UNCHANGED <<inflight, issued>>


\* a user intent that issues the request req
Issue(req) ==
  /\ ops < MaxOps
  /\ ops' = ops + 1
  /\ inflight' = inflight \cup {req}
  /\ issued' = issued + 1

\* the response to r arrives; the handler issues the requests in follow
Resolve(r, follow) ==
  /\ inflight' = (inflight \ {r}) \cup follow
  /\ issued' = issued + Cardinality(follow)
  /\ ops' = ops

NextRequest(kind, captured, sessionId, user, payload, caller) ==
  Request(kind, issued + 1, captured, sessionId, user, payload, caller)

SetUserId(id) ==
  /\ Intent
  /\ SetStore(setUserIdStore(Store, id))
  /\ Ran("setUserId", NoRequest, NoRequest, Null, "", NoResponse)

Connect ==
  LET req == NextRequest("health", Null, Null, userId, NoPayload, "none")
  IN /\ Issue(req)
     /\ SetStore(connectBegin(Store))
     /\ Ran("connect", NoRequest, req, Null, "", NoResponse)

\* loadSessions, before its request
loadSessionsBegin(st) == setLoading(st, TRUE)

\* connect, after the health probe: the store it leaves
connectOnHealth(st, resp) ==
  IF ~resp.ok THEN connectCatch(st)
  ELSE IF resp.status = "healthy" THEN loadSessionsBegin(connectHealthy(st))
  ELSE connectNotHealthy(st)

\* connect, after the health probe: does it call loadSessions
connectLoadsSessions(resp) == resp.ok /\ resp.status = "healthy"

\* connect: the value it returns
connectResult(resp) ==
  IF ~resp.ok THEN FALSE
  ELSE IF resp.status = "healthy" THEN TRUE
  ELSE FALSE

HealthResponse(r, resp) ==
  LET st == connectOnHealth(Store, resp)
      req == NextRequest("sessions", Null, Null, st.userId, NoPayload, "connect")
      follow == IF connectLoadsSessions(resp) THEN {req} ELSE {}
  IN /\ r.kind = "health"
     /\ SetStore(st)
     /\ Resolve(r, follow)
     /\ Ran("healthResponse", r, IF follow = {} THEN NoRequest ELSE req, Null, "", resp)

LoadSessions ==
  LET req == NextRequest("sessions", Null, Null, userId, NoPayload, "none")
  IN /\ Issue(req)
     /\ SetStore(loadSessionsBegin(Store))
     /\ Ran("loadSessions", NoRequest, req, Null, "", NoResponse)

\* loadSessions on its response, then the rest of the operation awaiting it:
\* sendMessage clears isLoading (line 354), connect only returns
loadSessionsOnResponse(st, caller, resp) ==
  LET st1 == loadSessionsApply(st, resp)
  IN IF caller = "sendMessage" THEN setLoading(st1, FALSE) ELSE st1

SessionsResponse(r, resp) ==
  /\ r.kind = "sessions"
  /\ SetStore(loadSessionsOnResponse(Store, r.caller, resp))
  /\ Resolve(r, {})
  /\ Ran("sessionsResponse", r, NoRequest, Null, "", resp)

\* loadConversation, before its request
loadConversationBegin(st) == setLoading(st, TRUE)

LoadConversation(sessionId) ==
  LET req == NextRequest("conversation", Null, sessionId, userId, NoPayload, "none")
  IN /\ Issue(req)
     /\ SetStore(loadConversationBegin(Store))
     /\ Ran("loadConversation", NoRequest, req, sessionId, "", NoResponse)

ConversationResponse(r, resp) ==
  /\ r.kind = "conversation"
  /\ SetStore(loadConversationApply(Store, r.sessionId, resp))
  /\ Resolve(r, {})
  /\ Ran("conversationResponse", r, NoRequest, r.sessionId, "", resp)

\* setCurrentConversation: does it call loadConversation
setCurrentConversationLoads(st, id) == id \notin Ids(st.conversations)

\* a slip in setCurrentConversationStore: the pointer moves before the
\* conversation is loaded
setCurrentConversationEager(st, id) ==
  IF setCurrentConversationLoads(st, id)
    THEN [loadConversationBegin(st) EXCEPT !.currentConversationId = id]
    ELSE [st EXCEPT !.currentConversationId = id]

\* setCurrentConversation: the store it leaves when it returns
setCurrentConversationStore(st, id) ==
  IF setCurrentConversationLoads(st, id)
    THEN loadConversationBegin(st)
    ELSE [st EXCEPT !.currentConversationId = id]

SetCurrentConversation(id) ==
  IF setCurrentConversationLoads(Store, id)
    THEN LET req == NextRequest("conversation", Null, id, userId, NoPayload, "none")
         IN /\ Issue(req)
            /\ SetStore(setCurrentConversationStore(Store, id))
            /\ Ran("setCurrentConversation", NoRequest, req, id, "", NoResponse)
    ELSE /\ Intent
         /\ SetStore(setCurrentConversationStore(Store, id))
         /\ Ran("setCurrentConversation", NoRequest, NoRequest, id, "", NoResponse)

\* a slip in sendMessageBegin: the user message is not appended before the request
sendMessageBeginWithoutAppend(st, content, call) == setLoading(st, TRUE)

\* sendMessage up to its await: the store when the chat request is issued
sendMessageBegin(st, content, call) ==
  addMessage(setLoading(st, TRUE), content, "user", call)

SendMessage(content) ==
  LET req == NextRequest("chat", currentConversationId, Null, userId,
                         chatPayload(setLoading(Store, TRUE), content), "none")
  IN /\ Issue(req)
     /\ SetStore(sendMessageBegin(Store, content, req.n))
     /\ Ran("sendMessage", NoRequest, req, content, "user", NoResponse)

\* a slip in sendMessageAdopts: the session list is never refreshed
sendMessageAdoptsNever(r, resp) == FALSE

\* sendMessage after its await: does it go on to adopt the session id and
\* call loadSessions
sendMessageAdopts(r, resp) ==
  /\ resp.ok
  /\ Truthy(resp.generation)
  /\ adoptsSessionId(r.captured, resp.session_id)

\* a slip in sendMessageOnResponse: a failed request is reported as a
\* connection error
sendMessageOnResponseReportingError(st, r, resp) ==
  IF ~resp.ok
    THEN [st EXCEPT !.isLoading = FALSE, !.connectionError = ConnectFailedError]
  ELSE IF Truthy(resp.generation)
    THEN LET st1 == addMessage(st, resp.generation, "assistant", r.n)
         IN IF adoptsSessionId(r.captured, resp.session_id)
              THEN loadSessionsBegin(adoptSessionId(st1, r.captured, resp.session_id))
              ELSE setLoading(st1, FALSE)
    ELSE setLoading(st, FALSE)

\* a slip in sendMessageOnResponse: a failed request takes the last message of
\* the current conversation back
sendMessageOnResponseRollingBack(st, r, resp) ==
  IF ~resp.ok
    THEN LET rollback(c) ==
               IF c.id = st.currentConversationId /\ c.messages # << >>
                 THEN [c EXCEPT !.messages = SubSeq(c.messages, 1, Len(c.messages) - 1)]
                 ELSE c
         IN [st EXCEPT
               !.conversations = [i \in 1..Len(st.conversations) |-> rollback(st.conversations[i])],
               !.isLoading = FALSE]
  ELSE IF Truthy(resp.generation)
    THEN LET st1 == addMessage(st, resp.generation, "assistant", r.n)
         IN IF adoptsSessionId(r.captured, resp.session_id)
              THEN loadSessionsBegin(adoptSessionId(st1, r.captured, resp.session_id))
              ELSE setLoading(st1, FALSE)
    ELSE setLoading(st, FALSE)

\* sendMessage after its await: the store it leaves, up to its next await
\* (inside loadSessions) or to its end
sendMessageOnResponse(st, r, resp) ==
  IF ~resp.ok THEN setLoading(st, FALSE)
  ELSE IF Truthy(resp.generation)
    THEN LET st1 == addMessage(st, resp.generation, "assistant", r.n)
         IN IF adoptsSessionId(r.captured, resp.session_id)
              THEN loadSessionsBegin(adoptSessionId(st1, r.captured, resp.session_id))
              ELSE setLoading(st1, FALSE)
    ELSE setLoading(st, FALSE)

ChatResponse(r, resp) ==
  LET st == sendMessageOnResponse(Store, r, resp)
      req == NextRequest("sessions", Null, Null, st.userId, NoPayload, "sendMessage")
      follow == IF sendMessageAdopts(r, resp) THEN {req} ELSE {}
  IN /\ r.kind = "chat"
     /\ SetStore(st)
     /\ Resolve(r, follow)
     /\ Ran("chatResponse", r, IF follow = {} THEN NoRequest ELSE req, Null, "", resp)

\* a slip in startNewConversationStore: an empty conversation is created
startNewConversationCreating(st) ==
  [st EXCEPT
     !.conversations =
        <<Conversation(uuidv4(st.uuidCount), NewChatTitle, << >>, Now, Now)>>
          \o st.conversations,
     !.currentConversationId = uuidv4(st.uuidCount),
     !.uuidCount = st.uuidCount + 1]

\* startNewConversation: the store it leaves
startNewConversationStore(st) == [st EXCEPT !.currentConversationId = Null]

StartNewConversation ==
  /\ Intent
  /\ SetStore(startNewConversationStore(Store))
  /\ Ran("startNewConversation", NoRequest, NoRequest, Null, "", NoResponse)

AddMessage(content, role) ==
  /\ Intent
  /\ SetStore(addMessage(Store, content, role, 0))
  /\ Ran("addMessage", NoRequest, NoRequest, content, role, NoResponse)

\* deleteSession, before its request
deleteSessionBegin(st) == setLoading(st, TRUE)

DeleteSession(sessionId) ==
  LET req == NextRequest("delete", Null, sessionId, userId, NoPayload, "none")
  IN /\ Issue(req)
     /\ SetStore(deleteSessionBegin(Store))
     /\ Ran("deleteSession", NoRequest, req, sessionId, "", NoResponse)

\* deleteConversation only calls deleteSession
DeleteConversation(id) == DeleteSession(id)

\* a slip in deleteSessionOnResponse: the local delete does not wait for success
deleteSessionOnResponseOptimistic(st, sessionId, resp) ==
  deleteSessionApply(st, sessionId)

\* deleteSession on its response
deleteSessionOnResponse(st, sessionId, resp) ==
  IF resp.ok THEN deleteSessionApply(st, sessionId) ELSE setLoading(st, FALSE)

DeleteResponse(r, resp) ==
  /\ r.kind = "delete"
  /\ SetStore(deleteSessionOnResponse(Store, r.sessionId, resp))
  /\ Resolve(r, {})
  /\ Ran("deleteResponse", r, NoRequest, r.sessionId, "", resp)

Next ==
  \/ \E id \in UserIds : SetUserId(id)
  \/ Connect
  \/ \E r \in inflight : \E resp \in HealthResponses : HealthResponse(r, resp)
  \/ LoadSessions
  \/ \E r \in inflight : \E resp \in SessionsResponses : SessionsResponse(r, resp)
  \/ \E id \in TargetIds : LoadConversation(id)
  \/ \E r \in inflight : \E resp \in ConversationResponses : ConversationResponse(r, resp)
  \/ \E id \in TargetIds : SetCurrentConversation(id)
  \/ \E content \in Contents : SendMessage(content)
  \/ \E r \in inflight : \E resp \in ChatResponses : ChatResponse(r, resp)
  \/ StartNewConversation
  \/ \E content \in Contents : \E role \in Roles : AddMessage(content, role)
  \/ \E id \in TargetIds : DeleteConversation(id)
  \/ \E r \in inflight : \E resp \in DeleteResponses : DeleteResponse(r, resp)

Spec == Init /\ [][Next]_vars

(***************************************************************************)
(* The settings, the file list and setLoading.                             *)
(***************************************************************************)
ApiKeys == {"key-2"}

ApiHosts == {"localhost:8000"}

UploadedFile(id, name, size, status) ==
  [id |-> id, name |-> name, size |-> size, status |-> status]

UploadedFiles == {UploadedFile("f1", "report.csv", 1, "uploading")}

\* Partial<UploadedFile>: the properties an update carries
FileUpdates ==
  { [status |-> "uploaded", s3Key |-> "uploads/report.csv"],
    [status |-> "error", error |-> "Upload failed"] }

FileIds == {files[i].id : i \in 1..Len(files)}

\* { ...file, ...updates }
Merge(file, updates) ==
  [k \in DOMAIN file \cup DOMAIN updates |->
     IF k \in DOMAIN updates THEN updates[k] ELSE file[k]]

setApiKeyStore(st, key) == [st EXCEPT !.apiKey = key]

setApiHostStore(st, host) == [st EXCEPT !.apiHost = host]

addFileStore(st, file) == [st EXCEPT !.files = Append(st.files, file)]

updateFileStore(st, id, updates) ==
  [st EXCEPT !.files =
     [i \in 1..Len(st.files) |->
        IF st.files[i].id = id THEN Merge(st.files[i], updates) ELSE st.files[i]]]

removeFileStore(st, id) ==
  LET keep(file) == file.id # id
  IN [st EXCEPT !.files = SelectSeq(st.files, keep)]

SetApiKey(key) ==
  /\ Intent
  /\ SetStore(setApiKeyStore(Store, key))
  /\ Ran("setApiKey", NoRequest, NoRequest, key, "", NoResponse)

SetApiHost(host) ==
  /\ Intent
  /\ SetStore(setApiHostStore(Store, host))
  /\ Ran("setApiHost", NoRequest, NoRequest, host, "", NoResponse)

AddFile(file) ==
  /\ Intent
  /\ SetStore(addFileStore(Store, file))
  /\ Ran("addFile", NoRequest, NoRequest, file.id, "", NoResponse)

UpdateFile(id, updates) ==
  /\ Intent
  /\ SetStore(updateFileStore(Store, id, updates))
  /\ Ran("updateFile", NoRequest, NoRequest, id, "", NoResponse)

RemoveFile(id) ==
  /\ Intent
  /\ SetStore(removeFileStore(Store, id))
  /\ Ran("removeFile", NoRequest, NoRequest, id, "", NoResponse)

SetLoading(loading) ==
  /\ Intent
  /\ SetStore(setLoading(Store, loading))
  /\ Ran("setLoading", NoRequest, NoRequest, Null, "", NoResponse)

FullNext ==
  \/ Next
  \/ \E key \in ApiKeys : SetApiKey(key)
  \/ \E host \in ApiHosts : SetApiHost(host)
  \/ \E file \in UploadedFiles : AddFile(file)
  \/ \E id \in FileIds : \E updates \in FileUpdates : UpdateFile(id, updates)
  \/ \E id \in FileIds : RemoveFile(id)
  \/ \E loading \in BOOLEAN : SetLoading(loading)

FullSpec == Init /\ [][FullNext]_vars

(***************************************************************************)
(* The store from the moment connect() has returned true: the health probe *)
(* answered "healthy" and the sessions request of connect brought a list   *)
(* that is not empty.  The user intents are counted from there.            *)
(***************************************************************************)
ConnectedSessionLists == SessionLists \ {<< >>}

\* the sessions request of connect and the response that brought list
ConnectSessionsRequest == Request("sessions", 2, Null, Null, "", NoPayload, "connect")

ConnectSessionsResponse(list) == [NoResponse EXCEPT !.hasField = TRUE, !.list = list]

\* the store after connect's health probe, while its sessions request is in flight
ConnectingStore == loadSessionsBegin(connectHealthy(connectBegin(InitialStore)))

ConnectedInit ==
  \E list \in ConnectedSessionLists :
    /\ conversations = << >>
    /\ sessions = list
    /\ currentConversationId = Null
    /\ isLoading = FALSE
    /\ isConnected = TRUE
    /\ connectionError = NoError
    /\ userId = ""
    /\ uuidCount = 0
    /\ apiKey = DefaultApiKey
    /\ apiHost = DefaultApiHost
    /\ files = << >>
    /\ sessionsUser = ""
    /\ inflight = {}
    /\ issued = 2
    /\ ops = 0
    /\ last = [op |-> "sessionsResponse", req |-> ConnectSessionsRequest,
               sent |-> NoRequest, arg |-> Null, role |-> "",
               resp |-> ConnectSessionsResponse(list),
               pre |-> ConnectingStore, inflight |-> {ConnectSessionsRequest}]
    /\ titleContent = << >>
    /\ derivedTitle = << >>

ConnectedSpec == ConnectedInit /\ [][Next]_vars

(***************************************************************************)
(* createTitleFromContent on its own: the contents are the character       *)
(* sequences around the title limit that have at most two characters other *)
(* than "x", each of them a break point.                                   *)
(***************************************************************************)
TitleAlphabet == {"x"} \cup {breakPoints[k] : k \in 1..Len(breakPoints)}

TitleContents ==
  {[i \in 1..n |-> IF i = p THEN a ELSE IF i = q THEN b ELSE "x"] :
     n \in (TitleLimit - 1)..MaxContentLen,
     p \in 1..MaxContentLen, q \in 1..MaxContentLen,
     a \in TitleAlphabet, b \in TitleAlphabet}

TitleInit ==
  /\ conversations = << >>
  /\ sessions = << >>
  /\ currentConversationId = Null
  /\ isLoading = FALSE
  /\ isConnected = FALSE
  /\ connectionError = NoError
  /\ userId = ""
  /\ uuidCount = 0
  /\ apiKey = DefaultApiKey
  /\ apiHost = DefaultApiHost
  /\ files = << >>
  /\ sessionsUser = ""
  /\ inflight = {}
  /\ issued = 0
  /\ ops = 0
  /\ last = [op |-> "init", req |-> NoRequest, sent |-> NoRequest, arg |-> Null,
             role |-> "", resp |-> NoResponse, pre |-> InitialStore, inflight |-> {}]
  /\ titleContent \in TitleContents
  /\ derivedTitle = << >>

DeriveTitle ==
  /\ derivedTitle = << >>
  /\ derivedTitle' = createTitleFromCharacters(titleContent)
  /\ UNCHANGED <<conversations, sessions, currentConversationId, isLoading,
                 isConnected, connectionError, userId, apiKey, apiHost, files,
                 inflight, issued, ops, uuidCount, last, sessionsUser, titleContent>>

TitleNext == DeriveTitle

TitleSpec == TitleInit /\ [][TitleNext]_vars

(***************************************************************************)
(* Properties.  Each is read in the state a stretch leaves: last says      *)
(* which stretch ran and last.pre is the store it found.                   *)
(***************************************************************************)
IsPrefix(a, b) == Len(a) <= Len(b) /\ SubSeq(b, 1, Len(a)) = a

\* the chat response just handled carried a non-empty generation
ChatAnswered ==
  /\ last.op = "chatResponse"
  /\ last.resp.ok
  /\ Truthy(last.resp.generation)

\* ... and a session id different from the non-null id sendMessage captured
ChatRenames ==
  /\ ChatAnswered
  /\ Truthy(last.req.captured)
  /\ Truthy(last.resp.session_id)
  /\ last.resp.session_id # last.req.captured

\* the handler of a chat response adds at most one conversation, at the head
Shift == Len(conversations) - Len(last.pre.conversations)

\* C1: when sendMessage was called with currentConversationId = C (not null)
\* and its response has a non-empty generation and a session id S # C, then
\* after the response is applied every conversation that was keyed by C is
\* keyed by S and still starts with the messages it had, no conversation is
\* keyed by C, and currentConversationId = S.
C1_RenameOnNewSessionId ==
  ChatRenames =>
    LET C == last.req.captured
        S == last.resp.session_id
        before == last.pre.conversations
    IN /\ C \notin Ids(conversations)
       /\ currentConversationId = S
       /\ \A i \in 1..Len(before) :
            before[i].id = C =>
              /\ conversations[i + Shift].id = S
              /\ IsPrefix(before[i].messages, conversations[i + Shift].messages)

C1_Witness ==
  /\ ChatRenames
  /\ last.req.captured \in Ids(last.pre.conversations)
  /\ last.resp.session_id \in Ids(conversations)

\* C2: empty store, sendMessage, then a response with a non-empty generation
\* and session id S: exactly one conversation, its id is S, its messages are
\* the user message and then the assistant message, currentConversationId = S.
\* (ops = 1 and issued = 1 before the handler: sendMessage on the initial
\* store is all that happened.)
C2_FirstExchange ==
  (/\ ChatAnswered
   /\ Truthy(last.resp.session_id)
   /\ ops = 1
   /\ last.req.n = 1
   /\ last.inflight = {last.req})
  => /\ Len(conversations) = 1
     /\ conversations[1].id = last.resp.session_id
     /\ Len(conversations[1].messages) = 2
     /\ conversations[1].messages[1].role = "user"
     /\ conversations[1].messages[1].content = last.req.payload.question
     /\ conversations[1].messages[2].role = "assistant"
     /\ conversations[1].messages[2].content = last.resp.generation
     /\ currentConversationId = last.resp.session_id

\* the canonical UUID shape, position by position
HexCharacters ==
  {"0","1","2","3","4","5","6","7","8","9",
   "a","b","c","d","e","f","A","B","C","D","E","F"}

CanonicalUuid(s) ==
  /\ Len(Spell(s)) = 36
  /\ \A i \in 1..36 :
       IF i \in {9, 14, 19, 24} THEN Spell(s)[i] = "-" ELSE Spell(s)[i] \in HexCharacters

\* C3: the payload sendMessage builds has session_id exactly when the
\* currentConversationId it found is not null, is the session_id of an entry
\* of sessions and has the canonical UUID shape; it is then that id.
C3_SessionIdInPayload ==
  last.op = "sendMessage" =>
    LET current == last.pre.currentConversationId
        payload == last.sent.payload
    IN /\ ("session_id" \in payload.keys) <=>
            (/\ current # Null
             /\ current \in SessionIdsOf(last.pre.sessions)
             /\ CanonicalUuid(current))
       /\ "session_id" \in payload.keys => payload.session_id = current
       /\ payload.question = last.arg
       /\ {"question", "user_id"} \subseteq payload.keys

C3_Witness ==
  /\ last.op = "sendMessage"
  /\ "session_id" \in last.sent.payload.keys
  /\ last.sent.payload.session_id = SessionA

\* C4: no two entries of conversations have the same id.
C4_UniqueConversationIds ==
  \A i, j \in 1..Len(conversations) :
    i # j => conversations[i].id # conversations[j].id

\* the health probe just answered "healthy"
HealthyAnswer ==
  /\ last.op = "healthResponse"
  /\ last.resp.ok
  /\ last.resp.status = "healthy"

\* the health probe just threw, or answered another status
UnhealthyAnswer ==
  /\ last.op = "healthResponse"
  /\ (~last.resp.ok \/ last.resp.status # "healthy")

\* C5: on a "healthy" answer connect() writes isConnected = true, no
\* conversations and no current conversation, whatever was there, and only
\* then is the sessions request issued: it is in flight, it is the newest
\* request, and the isLoading = true of loadSessions stands over the
\* isLoading = false written with the connection state.
C5_ConnectClearsConversations ==
  HealthyAnswer =>
    /\ isConnected
    /\ conversations = << >>
    /\ currentConversationId = Null
    /\ last.sent.kind = "sessions"
    /\ last.sent \in inflight
    /\ last.sent \notin last.inflight
    /\ last.sent.n = issued
    /\ inflight = (last.inflight \ {last.req}) \cup {last.sent}
    /\ isLoading

C5_Witness ==
  /\ HealthyAnswer
  /\ last.pre.conversations # << >>
  /\ last.pre.currentConversationId # Null
  /\ conversations = << >>

\* C6: when the health probe throws or answers another status, connect() ends
\* with isConnected = false, a connectionError, isLoading = false, returns
\* false, issues no request, and leaves conversations, sessions and
\* currentConversationId as they were.
C6_ConnectFailure ==
  UnhealthyAnswer =>
    /\ ~isConnected
    /\ connectionError # NoError
    /\ ~isLoading
    /\ ~connectResult(last.resp)
    /\ last.sent = NoRequest
    /\ inflight = last.inflight \ {last.req}
    /\ conversations = last.pre.conversations
    /\ sessions = last.pre.sessions
    /\ currentConversationId = last.pre.currentConversationId

C6_Witness ==
  /\ UnhealthyAnswer
  /\ last.resp.ok
  /\ conversations # << >>
  /\ currentConversationId # Null
  /\ connectionError = NotHealthyError

\* the entries of a sequence of conversations (or sessions) whose id is not id,
\* in their order
RECURSIVE WithoutConversation(_, _)
WithoutConversation(convs, id) ==
  IF convs = << >> THEN << >>
  ELSE IF Head(convs).id = id THEN WithoutConversation(Tail(convs), id)
  ELSE <<Head(convs)>> \o WithoutConversation(Tail(convs), id)

RECURSIVE WithoutSession(_, _)
WithoutSession(sess, id) ==
  IF sess = << >> THEN << >>
  ELSE IF Head(sess).session_id = id THEN WithoutSession(Tail(sess), id)
  ELSE <<Head(sess)>> \o WithoutSession(Tail(sess), id)

\* C7: when the remote delete of id succeeds, no conversation and no session
\* has that id, all others are kept in their order, and
\* currentConversationId is null if it was id and unchanged otherwise.
C7_DeleteSuccess ==
  (last.op = "deleteResponse" /\ last.resp.ok) =>
    LET id == last.req.sessionId
    IN /\ id \notin Ids(conversations)
       /\ id \notin SessionIdsOf(sessions)
       /\ conversations = WithoutConversation(last.pre.conversations, id)
       /\ sessions = WithoutSession(last.pre.sessions, id)
       /\ currentConversationId =
            IF last.pre.currentConversationId = id
              THEN Null ELSE last.pre.currentConversationId

\* the deleted session was current, and a conversation and a session are left
C7_Witness ==
  /\ last.op = "deleteResponse"
  /\ last.resp.ok
  /\ last.pre.currentConversationId = last.req.sessionId
  /\ last.req.sessionId \in SessionIdsOf(last.pre.sessions)
  /\ conversations # << >>
  /\ sessions # << >>
  /\ currentConversationId = Null

\* C8: when the remote delete fails, conversations, sessions and
\* currentConversationId are what they were and isLoading is false.
C8_DeleteFailure ==
  (last.op = "deleteResponse" /\ ~last.resp.ok) =>
    /\ conversations = last.pre.conversations
    /\ sessions = last.pre.sessions
    /\ currentConversationId = last.pre.currentConversationId
    /\ ~isLoading

C8_Witness ==
  /\ last.op = "deleteResponse"
  /\ ~last.resp.ok
  /\ last.req.sessionId \in Ids(conversations)
  /\ currentConversationId = last.req.sessionId

\* a message was just appended (addMessage, or the append of sendMessage)
\* while currentConversationId was null
AppendedWithoutCurrent ==
  /\ last.op \in {"addMessage", "sendMessage"}
  /\ last.pre.currentConversationId = Null

MessagesHeld ==
  UNION {{conversations[i].messages[k] : k \in 1..Len(conversations[i].messages)} :
           i \in 1..Len(conversations)}

ChatFailed ==
  /\ last.op = "chatResponse"
  /\ ~last.resp.ok

\* the last message of conversation c is the user message of the call that
\* issued request r
EndsWithUserMessageOf(c, r) ==
  /\ c.messages # << >>
  /\ c.messages[Len(c.messages)] = Message("user", r.payload.question, r.n)

\* C11: when the chat request of sendMessage fails, the handling of the
\* failure leaves every conversation as it found it: a conversation that ended
\* with the user message of the call still ends with it, no assistant message
\* of the call is anywhere, no id changed; currentConversationId and sessions
\* are unchanged, no request is issued and isLoading is false.
C11_ChatFailure ==
  ChatFailed =>
    /\ Len(conversations) = Len(last.pre.conversations)
    /\ \A i \in 1..Len(last.pre.conversations) :
         /\ conversations[i].id = last.pre.conversations[i].id
         /\ conversations[i].messages = last.pre.conversations[i].messages
         /\ EndsWithUserMessageOf(last.pre.conversations[i], last.req)
              => EndsWithUserMessageOf(conversations[i], last.req)
    /\ \A m \in MessagesHeld : ~(m.role = "assistant" /\ m.call = last.req.n)
    /\ currentConversationId = last.pre.currentConversationId
    /\ sessions = last.pre.sessions
    /\ last.sent = NoRequest
    /\ inflight = last.inflight \ {last.req}
    /\ ~isLoading

\* the call's user message is the last message of the current conversation
C11_Witness ==
  /\ ChatFailed
  /\ \E i \in 1..Len(conversations) :
       /\ conversations[i].id = currentConversationId
       /\ EndsWithUserMessageOf(conversations[i], last.req)

\* a sessions response carrying a session list was just handled
SessionsLoaded ==
  /\ last.op = "sessionsResponse"
  /\ last.resp.ok
  /\ last.resp.hasField

\* the entries of a sequence, as a set
Range(seq) == {seq[i] : i \in 1..Len(seq)}

\* C12: when a sessions request succeeds with a list, sessions is that list,
\* entry by entry in its order, whatever sessions held before; loadSessions
\* changes neither conversations nor currentConversationId, before its request
\* or on its response.
C12_SessionsReplaced ==
  /\ SessionsLoaded =>
       /\ Len(sessions) = Len(last.resp.list)
       /\ \A i \in 1..Len(sessions) : sessions[i] = last.resp.list[i]
       /\ conversations = last.pre.conversations
       /\ currentConversationId = last.pre.currentConversationId
  /\ last.op = "loadSessions" =>
       /\ sessions = last.pre.sessions
       /\ conversations = last.pre.conversations
       /\ currentConversationId = last.pre.currentConversationId

\* an entry held before is gone, the list received is not empty, and there
\* are a conversation and a current id to be kept
C12_Witness ==
  /\ SessionsLoaded
  /\ \E x \in Range(last.pre.sessions) : x \notin Range(sessions)
  /\ sessions # << >>
  /\ conversations # << >>
  /\ currentConversationId # Null

\* a sessions request or a conversation request just failed
LoadFailed ==
  /\ last.op \in {"sessionsResponse", "conversationResponse"}
  /\ ~last.resp.ok

\* C13: when a sessions request or a conversation request fails,
\* conversations, sessions, currentConversationId, isConnected and
\* connectionError are what they were before the failure was handled, no
\* request is issued and isLoading is false.
C13_LoadFailure ==
  LoadFailed =>
    /\ conversations = last.pre.conversations
    /\ sessions = last.pre.sessions
    /\ currentConversationId = last.pre.currentConversationId
    /\ isConnected = last.pre.isConnected
    /\ connectionError = last.pre.connectionError
    /\ last.sent = NoRequest
    /\ inflight = last.inflight \ {last.req}
    /\ ~isLoading

\* a sessions request failed while the store was connected and held sessions
C13_Witness ==
  /\ LoadFailed
  /\ last.op = "sessionsResponse"
  /\ sessions # << >>
  /\ isConnected

\* a conversation response carrying a transcript was just handled
ConversationLoaded ==
  /\ last.op = "conversationResponse"
  /\ last.resp.ok
  /\ last.resp.hasField

\* the positions of the conversations with that id
PositionsOf(convs, id) == {i \in 1..Len(convs) : convs[i].id = id}

\* C14: when loadConversation(sessionId) succeeds, exactly one conversation
\* has id sessionId; its messages are those of the response's transcript, role
\* and content, in the same order, whatever an earlier entry with that id
\* held; the conversations with another id are the same, in the same order;
\* and currentConversationId = sessionId.
C14_LoadConversationUpserts ==
  ConversationLoaded =>
    LET sessionId == last.req.sessionId
        transcript == last.resp.messages
    IN /\ Cardinality(PositionsOf(conversations, sessionId)) = 1
       /\ \A i \in PositionsOf(conversations, sessionId) :
            /\ Len(conversations[i].messages) = Len(transcript)
            /\ \A k \in 1..Len(transcript) :
                 /\ conversations[i].messages[k].role = transcript[k].role
                 /\ conversations[i].messages[k].content = transcript[k].content
       /\ WithoutConversation(conversations, sessionId)
            = WithoutConversation(last.pre.conversations, sessionId)
       /\ currentConversationId = sessionId

\* an entry with that id, holding other messages, was replaced by a transcript
C14_Witness ==
  /\ ConversationLoaded
  /\ last.resp.messages # << >>
  /\ \E i \in PositionsOf(last.pre.conversations, last.req.sessionId) :
       /\ last.pre.conversations[i].messages # << >>
       /\ last.pre.conversations[i].messages[1].content # last.resp.messages[1].content
  /\ last.pre.currentConversationId # last.req.sessionId

\* the 0-based positions up to 30 at which content has a boundary character
BoundaryPositions(chars) ==
  {i \in 0..Min({TitleLimit, Len(chars) - 1}) :
     chars[i + 1] \in {" ", ",", ".", "?", "!"}}

\* the reference rule for titles; the prefix runs through the boundary
\* character and is shown without surrounding blanks
ReferenceTitle(chars) ==
  IF Len(chars) <= 30 THEN chars
  ELSE IF BoundaryPositions(chars) # {} /\ Max(BoundaryPositions(chars)) > 10
         THEN trim(SubSeq(chars, 1, Max(BoundaryPositions(chars)) + 1)) \o <<".", ".", ".">>
         ELSE trim(SubSeq(chars, 1, 30)) \o <<".", ".", ".">>

\* C15: the title derived from a content is the content itself when it has at
\* most 30 characters; otherwise the prefix ending at the last boundary
\* character (space, comma, period, question mark, exclamation mark) at or
\* before position 30, if that boundary lies past position 10, followed by the
\* ellipsis; otherwise the first 30 characters followed by the ellipsis.
C15_TitleRule ==
  derivedTitle # << >> => derivedTitle = ReferenceTitle(titleContent)

\* a message was just appended: by addMessage, by sendMessage before its
\* request, or by sendMessage on a response with a generation
Appended ==
  \/ last.op \in {"addMessage", "sendMessage"}
  \/ ChatAnswered

\* the role of the message appended
AppendedRole == IF last.op = "chatResponse" THEN "assistant" ELSE last.role

\* the append created the conversation of a session that has a title
MaterializedWithSessionTitle ==
  /\ Appended
  /\ Truthy(last.pre.currentConversationId)
  /\ last.pre.currentConversationId \notin Ids(last.pre.conversations)
  /\ last.pre.currentConversationId \in SessionIdsOf(last.pre.sessions)
  /\ Truthy(FindSession(last.pre.sessions, last.pre.currentConversationId).title)

\* C16: a title supplied by the server stays through every append.  The only
\* title the backend supplies is ServerTitle, and no content yields it: a
\* conversation titled ServerTitle (by loadConversation, whatever the
\* transcript, or from its session) is still titled ServerTitle after an
\* addMessage or a sendMessage; and a conversation created for a session that
\* has a title gets that title, not one derived from the content.
C16_ServerTitleKept ==
  /\ Appended =>
       \A i \in 1..Len(last.pre.conversations) :
         last.pre.conversations[i].title = ServerTitle
           => conversations[i + Shift].title = ServerTitle
  /\ MaterializedWithSessionTitle =>
       Head(conversations).title
         = FindSession(last.pre.sessions, last.pre.currentConversationId).title

\* the generic titles: those addMessage gives or tests for, and the one
\* loadConversation gives when the backend sent none
PlaceholderTitles == {NewConversationTitle, NewChatTitle, ConversationTitle}

\* the append went to a conversation that was there
AppendedToExisting ==
  /\ Appended
  /\ last.pre.currentConversationId \in Ids(last.pre.conversations)

\* C17: when a message is appended to an existing conversation, a title
\* changes only if the message is a user message and the title was a generic
\* placeholder; so a title derived from a user message is never changed by
\* a later message.
C17_TitleChangesOnlyFromPlaceholder ==
  AppendedToExisting =>
    \A i \in 1..Len(last.pre.conversations) :
      /\ conversations[i + Shift].title # last.pre.conversations[i].title
           => /\ AppendedRole = "user"
              /\ last.pre.conversations[i].title \in PlaceholderTitles
      /\ last.pre.conversations[i].title = QuestionTitle
           => conversations[i + Shift].title = QuestionTitle

\* C18: whenever no request is in flight, currentConversationId is null, or
\* the id of a conversation, or the session_id of a session.
C18_CurrentIdRefersToEntry ==
  inflight = {} =>
    \/ currentConversationId = Null
    \/ currentConversationId \in Ids(conversations)
    \/ currentConversationId \in SessionIdsOf(sessions)

\* how many of the first i - 1 conversations have that id
CountBefore(convs, i, id) == Cardinality({k \in 1..(i - 1) : convs[k].id = id})

\* the position, after the stretch that just ran, of the conversation that was
\* at position i before it; 0 when it is no longer there.  The entry a loaded
\* conversation replaces is followed to the entry that took its id.
After(i) ==
  LET before == last.pre.conversations
  IN CASE last.op \in {"addMessage", "sendMessage", "chatResponse"} -> i + Shift
       [] ConversationLoaded ->
            IF before[i].id = last.req.sessionId THEN Len(conversations)
            ELSE i - CountBefore(before, i, last.req.sessionId)
       [] last.op = "deleteResponse" /\ last.resp.ok ->
            IF before[i].id = last.req.sessionId THEN 0
            ELSE i - CountBefore(before, i, last.req.sessionId)
       [] last.op = "setUserId" -> 0
       [] HealthyAnswer -> 0
       [] OTHER -> i

\* the same, with the entry a loaded conversation replaces counted as removed
AfterUnlessReloaded(i) ==
  IF ConversationLoaded /\ last.pre.conversations[i].id = last.req.sessionId
    THEN 0 ELSE After(i)

\* the id, after the stretch that just ran, of a conversation that had this id
IdAfter(id) ==
  IF /\ ChatAnswered
     /\ adoptsSessionId(last.req.captured, last.resp.session_id)
     /\ Truthy(last.req.captured)
     /\ id = last.req.captured
    THEN last.resp.session_id ELSE id

\* C19 as stated: in every step, every conversation that is there before and
\* after it (under its new id if it was renamed) has after the step the
\* messages it had before, followed by those appended.
C19_AppendOnly ==
  \A i \in 1..Len(last.pre.conversations) :
    After(i) # 0 =>
      /\ After(i) \in 1..Len(conversations)
      /\ conversations[After(i)].id = IdAfter(last.pre.conversations[i].id)
      /\ IsPrefix(last.pre.conversations[i].messages, conversations[After(i)].messages)

\* C19 as amended: the same in every step, for every conversation other than
\* the one a successful loadConversation replaces.
C19_AppendOnlyUnlessReloaded ==
  \A i \in 1..Len(last.pre.conversations) :
    AfterUnlessReloaded(i) # 0 =>
      /\ AfterUnlessReloaded(i) \in 1..Len(conversations)
      /\ conversations[AfterUnlessReloaded(i)].id = IdAfter(last.pre.conversations[i].id)
      /\ IsPrefix(last.pre.conversations[i].messages,
                  conversations[AfterUnlessReloaded(i)].messages)

\* a conversation that held messages was renamed and got one more message
C19_Witness ==
  /\ ChatAnswered
  /\ \E i \in 1..Len(last.pre.conversations) :
       /\ last.pre.conversations[i].messages # << >>
       /\ conversations[After(i)].id # last.pre.conversations[i].id
       /\ Len(conversations[After(i)].messages)
            = Len(last.pre.conversations[i].messages) + 1

\* C20: setCurrentConversation(id), when a conversation with that id is
\* loaded, makes id current and issues no request; otherwise it issues a
\* conversation request for id and leaves currentConversationId as it was.
\* When a conversation request is answered, currentConversationId becomes the
\* requested id if the request succeeded with a transcript and is left as it
\* was if the request failed.  Neither step changes the conversations other
\* than by the loaded one.
C20_SetCurrentConversation ==
  /\ last.op = "setCurrentConversation" =>
       /\ conversations = last.pre.conversations
       /\ sessions = last.pre.sessions
       /\ IF last.arg \in Ids(last.pre.conversations)
            THEN /\ currentConversationId = last.arg
                 /\ last.sent = NoRequest
                 /\ inflight = last.inflight
            ELSE /\ currentConversationId = last.pre.currentConversationId
                 /\ last.sent.kind = "conversation"
                 /\ last.sent.sessionId = last.arg
                 /\ last.sent \notin last.inflight
                 /\ inflight = last.inflight \cup {last.sent}
  /\ last.op = "conversationResponse" =>
       /\ ~last.resp.ok =>
            currentConversationId = last.pre.currentConversationId
       /\ ConversationLoaded =>
            currentConversationId = last.req.sessionId

\* a conversation that is not loaded was chosen while another id was current
C20_Witness ==
  /\ last.op = "setCurrentConversation"
  /\ last.sent.kind = "conversation"
  /\ last.sent \in inflight
  /\ currentConversationId # Null
  /\ currentConversationId # last.arg

\* C21: apiHost, apiKey and userId are changed by setApiHost, setApiKey and
\* setUserId only, isConnected and connectionError by connect() only (before
\* its health probe and on the probe's answer): every other stretch of every
\* operation, on success and on failure, leaves them as it found them.
C21_SettingsFrame ==
  /\ last.op # "setApiHost" => apiHost = last.pre.apiHost
  /\ last.op # "setApiKey" => apiKey = last.pre.apiKey
  /\ last.op # "setUserId" => userId = last.pre.userId
  /\ last.op \notin {"connect", "healthResponse"} =>
       /\ isConnected = last.pre.isConnected
       /\ connectionError = last.pre.connectionError

\* a chat request failed in a store that holds a connection error
C21_Witness ==
  /\ ChatFailed
  /\ connectionError = NotHealthyError
  /\ ~isConnected

\* the conversations the stretch found, under the ids they have after it
Renamed(convs) ==
  [i \in 1..Len(convs) |-> [convs[i] EXCEPT !.id = IdAfter(convs[i].id)]]

\* an append just created a conversation
AppendInserted ==
  /\ Appended
  /\ Len(conversations) = Len(last.pre.conversations) + 1

\* a conversation whose id was not in conversations was just loaded
LoadInserted ==
  /\ ConversationLoaded
  /\ last.req.sessionId \notin Ids(last.pre.conversations)

\* C22: a conversation inserted under an id that was not in conversations (by
\* addMessage without a current conversation, by addMessage for a current id
\* that has no conversation, by a successful loadConversation) is at index 0,
\* and the conversations that were there follow it in their order.
C22_MostRecentFirst ==
  /\ AppendInserted =>
       /\ Head(conversations).id \notin Ids(last.pre.conversations)
       /\ Tail(conversations) = Renamed(last.pre.conversations)
  /\ LoadInserted =>
       /\ Head(conversations).id = last.req.sessionId
       /\ Tail(conversations) = last.pre.conversations

\* addMessage just ran (on its own, at the start of sendMessage, or on a chat
\* response that adopted no session id) with a current id that had no
\* conversation
Materialized ==
  /\ \/ last.op \in {"addMessage", "sendMessage"}
     \/ ChatAnswered /\ ~adoptsSessionId(last.req.captured, last.resp.session_id)
  /\ Truthy(last.pre.currentConversationId)
  /\ last.pre.currentConversationId \notin Ids(last.pre.conversations)

\* the content of the message appended
AppendedContent == IF last.op = "chatResponse" THEN last.resp.generation ELSE last.arg

\* the title a new conversation gets from its first message alone
TitleFromMessage ==
  IF AppendedRole = "user"
    THEN (IF AppendedContent = Question THEN QuestionTitle ELSE AppendedContent)
    ELSE "New conversation"

\* what C23 says of the conversation created, but for its title
MaterializedFrame ==
  LET cur == last.pre.currentConversationId
  IN /\ Cardinality(PositionsOf(conversations, cur)) = 1
     /\ \A i \in PositionsOf(conversations, cur) :
          /\ Len(conversations[i].messages) = 1
          /\ conversations[i].messages[1].role = AppendedRole
          /\ conversations[i].messages[1].content = AppendedContent
          /\ cur \in SessionIdsOf(last.pre.sessions)
               => conversations[i].createdAt = FindSession(last.pre.sessions, cur).created_at
     /\ currentConversationId = cur
     /\ WithoutConversation(conversations, cur) = last.pre.conversations

\* C23 as stated: addMessage with a current id that matches no conversation
\* creates exactly one conversation with that id, holding the new message
\* only, and leaves the current id and the other conversations as they were;
\* title and createdAt are those of the session with that id when there is
\* one; without one the title comes from the content (user) or is the
\* placeholder (assistant).
C23_Materialize ==
  Materialized =>
    LET cur == last.pre.currentConversationId
    IN /\ MaterializedFrame
       /\ \A i \in PositionsOf(conversations, cur) :
            conversations[i].title =
              IF cur \in SessionIdsOf(last.pre.sessions)
                THEN FindSession(last.pre.sessions, cur).title
                ELSE TitleFromMessage

\* C23 as amended: the title is that of the session when there is one and its
\* title is not empty; otherwise it comes from the message.
C23_MaterializeTitleIfAny ==
  Materialized =>
    LET cur == last.pre.currentConversationId
    IN /\ MaterializedFrame
       /\ \A i \in PositionsOf(conversations, cur) :
            conversations[i].title =
              IF /\ cur \in SessionIdsOf(last.pre.sessions)
                 /\ FindSession(last.pre.sessions, cur).title # ""
                THEN FindSession(last.pre.sessions, cur).title
                ELSE TitleFromMessage

\* a conversation was created with the title and the date of its session,
\* next to a conversation that was there
C23_Witness ==
  /\ Materialized
  /\ last.pre.conversations # << >>
  /\ Head(conversations).id = currentConversationId
  /\ Head(conversations).title = ServerTitle
  /\ Head(conversations).createdAt = ServerDate

\* the chat response just handled has a generation and a session id that is
\* not the id sendMessage captured (or it had captured none)
NewSessionIdReceived ==
  /\ ChatAnswered
  /\ last.resp.session_id # Null
  /\ (last.req.captured = Null \/ last.req.captured # last.resp.session_id)

\* C24: on a chat response with a generation and a session id other than the
\* captured one, sendMessage makes that id current and then issues one
\* sessions request, and has not completed (isLoading is true) while that
\* request is in flight; on any other response it issues no request, changes
\* no conversation id and completes; when the sessions request it awaited is
\* answered, it completes without a further request.
C24_RefreshAfterNewSessionId ==
  /\ (last.op = "chatResponse" /\ last.resp.ok) =>
       IF NewSessionIdReceived
         THEN /\ currentConversationId = last.resp.session_id
              /\ last.sent.kind = "sessions"
              /\ last.sent.caller = "sendMessage"
              /\ last.sent \notin last.inflight
              /\ inflight = (last.inflight \ {last.req}) \cup {last.sent}
              /\ isLoading
         ELSE /\ last.sent = NoRequest
              /\ inflight = last.inflight \ {last.req}
              /\ \A i \in 1..Len(last.pre.conversations) :
                   conversations[i + Shift].id = last.pre.conversations[i].id
              /\ ~isLoading
  /\ (last.op = "sessionsResponse" /\ last.req.caller = "sendMessage") =>
       /\ last.sent = NoRequest
       /\ inflight = last.inflight \ {last.req}
       /\ ~isLoading

\* the sessions request is in flight after a rename
C24_Witness ==
  /\ NewSessionIdReceived
  /\ last.req.captured # Null
  /\ last.sent.kind = "sessions"
  /\ last.sent \in inflight
  /\ currentConversationId = last.resp.session_id

\* C25: startNewConversation makes currentConversationId null and changes no
\* other field of the store (conversations, sessions, isLoading, the
\* connection fields and the settings among them); it issues no request and
\* creates no conversation.
C25_StartNewConversation ==
  last.op = "startNewConversation" =>
    /\ currentConversationId = Null
    /\ conversations = last.pre.conversations
    /\ sessions = last.pre.sessions
    /\ isLoading = last.pre.isLoading
    /\ isConnected = last.pre.isConnected
    /\ connectionError = last.pre.connectionError
    /\ userId = last.pre.userId
    /\ apiKey = last.pre.apiKey
    /\ apiHost = last.pre.apiHost
    /\ files = last.pre.files
    /\ last.sent = NoRequest
    /\ inflight = last.inflight

\* a conversation was current, and a request was in flight
C25_Witness ==
  /\ last.op = "startNewConversation"
  /\ last.pre.currentConversationId # Null
  /\ conversations # << >>
  /\ inflight # {}
  /\ isLoading

\* the user message and the assistant message of the call that issued request r
UserMessageOf(r) == Message("user", r.payload.question, r.n)

AssistantMessageOf(r, resp) == Message("assistant", resp.generation, r.n)

\* the messages the conversations held before the stretch that just ran
MessagesHeldBefore ==
  UNION {{last.pre.conversations[i].messages[k] :
            k \in 1..Len(last.pre.conversations[i].messages)} :
           i \in 1..Len(last.pre.conversations)}

\* C26: when a chat response with a generation is handled and the user
\* message of the call is still in a conversation, the assistant message of
\* the call is in a conversation, and every conversation that holds it holds
\* the user message of the call before it: no conversation begins with it.
C26_AnswerJoinsItsQuestion ==
  (ChatAnswered /\ UserMessageOf(last.req) \in MessagesHeldBefore) =>
    /\ AssistantMessageOf(last.req, last.resp) \in MessagesHeld
    /\ \A i \in 1..Len(conversations) :
         \A k \in 1..Len(conversations[i].messages) :
           conversations[i].messages[k] = AssistantMessageOf(last.req, last.resp) =>
             \E j \in 1..(k - 1) : conversations[i].messages[j] = UserMessageOf(last.req)

\* C27: in every reachable state, isConnected = true implies
\* connectionError = null.
C27_ConnectedWithoutError ==
  isConnected => connectionError = NoError

\* C28: in every state where all issued requests have resolved (with a
\* failure, a well-formed response, or a successful response lacking the
\* sessions or messages field), isLoading is false.
C28_LoadingCleared ==
  inflight = {} => ~isLoading

\* the step before this one applied a successful remote delete
DeleteApplied == last.op = "deleteResponse" /\ last.resp.ok

\* this step handles the response of a request that was already in flight
\* when the delete was applied
LateResponse ==
  /\ last'.op \in {"conversationResponse", "sessionsResponse", "chatResponse"}
  /\ last'.req \in inflight

\* C29: once the remote delete of deleteSession(X) has succeeded and been
\* applied, a response to a request issued before that does not bring back
\* a conversation with id X or a SessionSummary with session_id X.
C29_DeletedStaysDeleted ==
  [][(DeleteApplied /\ LateResponse) =>
       /\ last.arg \notin Ids(conversations')
       /\ last.arg \notin SessionIdsOf(sessions')]_vars

\* connect() has just finished: its health probe was answered "healthy" and
\* the sessions request it made for the current userId has resolved
ConnectFinishedForCurrentUser ==
  /\ last.op = "sessionsResponse"
  /\ last.req.caller = "connect"
  /\ last.req.user = userId
  /\ isConnected

\* C30: after a successful connect() for the userId in the store, whether or
\* not its loadSessions succeeded, sessions holds no entry that was fetched
\* for another userId.
C30_SessionsOfCurrentUser ==
  ConnectFinishedForCurrentUser => (sessions # << >> => sessionsUser = userId)

====
